---- MODULE Spec2Model ----
(***************************************************************************)
(* color-rs: channel normalisation (src/src/channels.rs), the colour       *)
(* entity generated by declare_color_format / declare_color_components     *)
(* (src/src/color.rs) and the Xyz <-> Yxy conversions                      *)
(* (src/src/spaces/xyz.rs, src/src/spaces/yxy.rs).                         *)
(*                                                                         *)
(* Numbers.  Rust's integer channel types reach 2^64 and its f32/f64       *)
(* arithmetic rounds, so numbers are kept as arbitrary-precision binary    *)
(* values: a natural is a little-endian sequence of limbs in base 2^15     *)
(* (so that a product of two limbs stays inside the checker's integers),   *)
(* without a most significant zero limb; <<>> is 0.                        *)
(***************************************************************************)
EXTENDS Integers, Sequences, FiniteSets, TLC

Max2(a, b) == IF a >= b THEN a ELSE b

Min2(a, b) == IF a <= b THEN a ELSE b

(* ---------------- arbitrary-precision naturals ------------------------- *)

\* the widest limb whose products (plus a carry) stay below 2^30
LimbBits == CHOOSE k \in 1..30 : 2 * k <= 30 /\ 2 * (k + 1) > 30

Base == 2^LimbBits

RECURSIVE NNorm(_)
NNorm(a) ==
    IF a = <<>> THEN <<>>
    ELSE IF a[Len(a)] # 0 THEN a
    ELSE NNorm(SubSeq(a, 1, Len(a) - 1))

RECURSIVE NFromInt(_)
NFromInt(n) == IF n = 0 THEN <<>> ELSE <<n % Base>> \o NFromInt(n \div Base)

NLimb(a, i) == IF i >= 1 /\ i <= Len(a) THEN a[i] ELSE 0

\* number of significant bits of one limb
LimbLen(d) == IF d = 0 THEN 0 ELSE CHOOSE k \in 1..LimbBits : 2^(k - 1) <= d /\ d < 2^k

NBitLen(a) == IF a = <<>> THEN 0 ELSE LimbBits * (Len(a) - 1) + LimbLen(a[Len(a)])

\* a shifted up by q whole limbs and s < w bits, for limbs of w bits
NShlBy(a, q, s, w) ==
    NNorm([i \in 1..(Len(a) + q + 1) |->
            IF i <= q THEN 0
            ELSE (NLimb(a, i - q) % 2^(w - s)) * 2^s + (NLimb(a, i - q - 1) \div 2^(w - s))])

\* a * 2^k
NShl(a, k) == IF a = <<>> THEN <<>> ELSE NShlBy(a, k \div LimbBits, k % LimbBits, LimbBits)

\* a shifted down by q whole limbs and s < w bits
NShrBy(a, q, s, w) ==
    IF q >= Len(a) THEN <<>>
    ELSE NNorm([i \in 1..(Len(a) - q) |->
                 (NLimb(a, i + q) \div 2^s) + (NLimb(a, i + q + 1) % 2^s) * 2^(w - s)])

\* floor(a / 2^k)
NShr(a, k) == NShrBy(a, k \div LimbBits, k % LimbBits, LimbBits)

\* bit k of a, bit 0 the least significant
NTestBit(a, k) == (NLimb(a, (k \div LimbBits) + 1) \div 2^(k % LimbBits)) % 2

NPow2(k) == NShl(<<1>>, k)

\* the limbs of a + b from limb i on, c the carry into limb i
RECURSIVE NAddC(_, _, _, _, _)
NAddC(a, b, i, c, base) ==
    IF i > Len(a) /\ i > Len(b)
    THEN (IF c = 0 THEN <<>> ELSE <<c>>)
    ELSE <<(NLimb(a, i) + NLimb(b, i) + c) % base>>
             \o NAddC(a, b, i + 1, (NLimb(a, i) + NLimb(b, i) + c) \div base, base)

NAdd(a, b) == NAddC(a, b, 1, 0, Base)

\* the limbs of a - b from limb i on, c the borrow out of limb i - 1
RECURSIVE NSubC(_, _, _, _, _)
NSubC(a, b, i, c, base) ==
    IF i > Len(a) THEN <<>>
    ELSE <<(NLimb(a, i) - NLimb(b, i) - c) % base>>
             \o NSubC(a, b, i + 1, IF NLimb(a, i) - NLimb(b, i) - c < 0 THEN 1 ELSE 0, base)

\* a - b, for a >= b
NSub(a, b) == NNorm(NSubC(a, b, 1, 0, Base))

RECURSIVE NCmpAt(_, _, _)
NCmpAt(a, b, i) ==
    IF i = 0 THEN 0
    ELSE IF a[i] > b[i] THEN 1
    ELSE IF a[i] < b[i] THEN -1
    ELSE NCmpAt(a, b, i - 1)

\* -1, 0, 1 as a < b, a = b, a > b
NCmp(a, b) ==
    IF Len(a) > Len(b) THEN 1
    ELSE IF Len(a) < Len(b) THEN -1
    ELSE NCmpAt(a, b, Len(a))

RECURSIVE NMulLimbC(_, _, _, _, _)
NMulLimbC(a, d, i, c, base) ==
    IF i > Len(a) THEN (IF c = 0 THEN <<>> ELSE <<c>>)
    ELSE <<(a[i] * d + c) % base>> \o NMulLimbC(a, d, i + 1, (a[i] * d + c) \div base, base)

\* a * d for one limb d
NMulLimb(a, d) == IF d = 0 THEN <<>> ELSE NMulLimbC(a, d, 1, 0, Base)

RECURSIVE NMul(_, _)
NMul(a, b) ==
    IF a = <<>> \/ b = <<>> THEN <<>>
    ELSE NAdd(NMulLimb(a, Head(b)), NShl(NMul(a, Tail(b)), LimbBits))

\* the largest limb d with d * b <= r, for r < b * Base, found bit by bit
RECURSIVE NQDigit(_, _, _, _)
NQDigit(r, b, d, k) ==
    IF k < 0 THEN d
    ELSE IF NCmp(NMulLimb(b, d + 2^k), r) <= 0 THEN NQDigit(r, b, d + 2^k, k - 1)
    ELSE NQDigit(r, b, d, k - 1)

\* long division, most significant limb of a first: a = q * b + r, r < b.
\* NDivAt brings limb i of a down to the remainder r, and NDivPut takes the
\* quotient limb d out of that remainder r2.
RECURSIVE NDivAt(_, _, _, _, _, _)
RECURSIVE NDivPut(_, _, _, _, _, _, _)
NDivAt(a, b, i, q, r, w) ==
    IF i = 0 THEN [q |-> NNorm(q), r |-> r]
    ELSE NDivPut(a, b, i, q, NNorm(<<a[i]>> \o r), NQDigit(NNorm(<<a[i]>> \o r), b, 0, w - 1), w)

NDivPut(a, b, i, q, r2, d, w) == NDivAt(a, b, i - 1, <<d>> \o q, NSub(r2, NMulLimb(b, d)), w)

NDivMod(a, b) == NDivAt(a, b, Len(a), <<>>, <<>>, LimbBits)

(* ---------------- numbers: channel values ------------------------------ *)
(* A channel value, of an integer or of a float type, is                   *)
(*   [k |-> "fin", s |-> sign, m |-> odd natural, e |-> exponent]          *)
(* standing for (-1)^s * m * 2^e (zero: m = <<>>, e = 0, s = 0), or an     *)
(* infinity [k |-> "inf"], or [k |-> "nan"]. The form is canonical, so     *)
(* equality of records is equality of values; -0.0 is not told from 0.0   *)
(* (they compare equal in Rust and nothing here divides by a zero).        *)

Zero == [k |-> "fin", s |-> 0, m |-> <<>>, e |-> 0]

Inf(s) == [k |-> "inf", s |-> s, m |-> <<>>, e |-> 0]

NaN == [k |-> "nan", s |-> 0, m |-> <<>>, e |-> 0]

\* number of trailing zero bits of a non-zero natural
NTrailingZeros(m) ==
    LET i == CHOOSE j \in 1..Len(m) : m[j] # 0 /\ \A h \in 1..(j - 1) : m[h] = 0
        t == CHOOSE u \in 0..(LimbBits - 1) : m[i] % 2^u = 0 /\ m[i] % 2^(u + 1) # 0
    IN  LimbBits * (i - 1) + t

\* (-1)^s * m * 2^e with the z trailing zero bits of m moved to the exponent
CanonAt(s, m, e, z) == [k |-> "fin", s |-> s, m |-> NShr(m, z), e |-> e + z]

\* the canonical record of (-1)^s * m * 2^e
Canon(s, m, e) == IF m = <<>> THEN Zero ELSE CanonAt(s, m, e, NTrailingZeros(m))

\* an integer of the checker as a number
Num(n) == IF n >= 0 THEN Canon(0, NFromInt(n), 0) ELSE Canon(1, NFromInt(-n), 0)

Neg(a) == IF a.k = "nan" \/ (a.k = "fin" /\ a.m = <<>>) THEN a ELSE [a EXCEPT !.s = 1 - a.s]

IsZero(a) == a.k = "fin" /\ a.m = <<>>

\* exponent of the leading bit of a finite non-zero number
TopExp(a) == a.e + NBitLen(a.m) - 1

\* |a| < |b|, |a| = |b|, |a| > |b| as -1, 0, 1, for finite a and b
MagCmp(a, b) ==
    IF IsZero(a) /\ IsZero(b) THEN 0
    ELSE IF IsZero(a) THEN -1
    ELSE IF IsZero(b) THEN 1
    ELSE IF TopExp(a) > TopExp(b) THEN 1
    ELSE IF TopExp(a) < TopExp(b) THEN -1
    ELSE NCmp(NShl(a.m, a.e - Min2(a.e, b.e)), NShl(b.m, b.e - Min2(a.e, b.e)))

\* a < b, a = b, a > b as -1, 0, 1, for finite a and b
NumCmp(a, b) ==
    IF a.s # b.s THEN (IF a.s = 1 THEN -1 ELSE 1)
    ELSE MagCmp(IF a.s = 0 THEN a ELSE b, IF a.s = 0 THEN b ELSE a)

(* ---------------- IEEE 754 binary formats ------------------------------ *)
(* p: bits of significand, emin/emax: exponents of the least and greatest  *)
(* normal binade. Arithmetic is the exact result rounded to nearest, ties  *)
(* to even, with gradual underflow and overflow to infinity.               *)

F32 == [p |-> 24, emin |-> -126, emax |-> 127]

F64 == [p |-> 53, emin |-> -1022, emax |-> 1023]

\* the exponent of the last place a format keeps of m * 2^e, m # 0
Quantum(m, e, fmt) == Max2(e + NBitLen(m) - fmt.p, fmt.emin - fmt.p + 1)

\* floor(m / 2^sh) = keep moved to the nearest integer to m / 2^sh, ties to even
NearestOf(m, sh, keep) ==
    IF /\ sh <= NBitLen(m)
       /\ NTestBit(m, sh - 1) = 1
       /\ (NShl(NShr(m, sh - 1), sh - 1) # m \/ NTestBit(keep, 0) = 1)
    THEN NAdd(keep, <<1>>)
    ELSE keep

\* the nearest integer to m / 2^sh, sh > 0
Nearest(m, sh) == NearestOf(m, sh, NShr(m, sh))

\* (-1)^s * m * 2^e for an m of at most p bits, or the infinity it overflows to
Finite(s, m, e, fmt) ==
    IF m # <<>> /\ e + NBitLen(m) - 1 > fmt.emax THEN Inf(s) ELSE Canon(s, m, e)

\* (-1)^s * m * 2^e brought to the last place q
RoundTo(s, m, e, fmt, q) ==
    Finite(s, IF q <= e THEN m ELSE Nearest(m, q - e), Max2(q, e), fmt)

\* (-1)^s * m * 2^e rounded into the format
Round(s, m, e, fmt) == IF m = <<>> THEN Zero ELSE RoundTo(s, m, e, fmt, Quantum(m, e, fmt))

\* a finite non-zero value cut to what can still move a sum whose larger
\* operand has its leading bit at exponent top: the bits below
\* top - p - 3 are replaced by one sticky bit
Sticky(a, top, fmt) ==
    IF TopExp(a) >= top - fmt.p - 3 THEN a
    ELSE [k |-> "fin", s |-> a.s, m |-> <<1>>, e |-> top - fmt.p - 4]

\* sa * ma * 2^lo + sb * mb * 2^lo, as sign, magnitude and exponent
AddMant(sa, sb, ma, mb, lo) ==
    IF sa = sb THEN [s |-> sa, m |-> NAdd(ma, mb), e |-> lo]
    ELSE IF NCmp(ma, mb) >= 0 THEN [s |-> sa, m |-> NSub(ma, mb), e |-> lo]
    ELSE [s |-> sb, m |-> NSub(mb, ma), e |-> lo]

\* the sum of two finite non-zero values brought to their lower exponent
AddAligned(a, b) ==
    AddMant(a.s, b.s, NShl(a.m, a.e - Min2(a.e, b.e)), NShl(b.m, b.e - Min2(a.e, b.e)),
            Min2(a.e, b.e))

\* a + b for finite a and b, before rounding
ExactSum(a, b, top, fmt) ==
    IF IsZero(a) THEN b
    ELSE IF IsZero(b) THEN a
    ELSE AddAligned(Sticky(a, top, fmt), Sticky(b, top, fmt))

RoundNum(x, fmt) == Round(x.s, x.m, x.e, fmt)

FAdd(a, b, fmt) ==
    IF a.k = "nan" \/ b.k = "nan" THEN NaN
    ELSE IF a.k = "inf" /\ b.k = "inf" THEN (IF a.s = b.s THEN a ELSE NaN)
    ELSE IF a.k = "inf" THEN a
    ELSE IF b.k = "inf" THEN b
    ELSE RoundNum(ExactSum(a, b, Max2(TopExp(a), TopExp(b)), fmt), fmt)

FSub(a, b, fmt) == FAdd(a, Neg(b), fmt)

SignXor(a, b) == (a.s + b.s) % 2

FMul(a, b, fmt) ==
    IF a.k = "nan" \/ b.k = "nan" THEN NaN
    ELSE IF a.k = "inf" \/ b.k = "inf"
    THEN (IF IsZero(a) \/ IsZero(b) THEN NaN ELSE Inf(SignXor(a, b)))
    ELSE Round(SignXor(a, b), NMul(a.m, b.m), a.e + b.e, fmt)

\* the quotient d.q of the magnitudes, with one more bit that says whether
\* a remainder d.r was left, rounded
DivRound(s, d, e, fmt) ==
    Round(s, NAdd(NShl(d.q, 1), IF d.r = <<>> THEN <<>> ELSE <<1>>), e, fmt)

\* a / b for finite non-zero a and b, the dividend shifted up by sh bits so
\* that the quotient has at least p + 2 bits
DivBy(a, b, sh, fmt) ==
    DivRound(SignXor(a, b), NDivMod(NShl(a.m, sh), b.m), a.e - b.e - sh - 1, fmt)

FDiv(a, b, fmt) ==
    IF a.k = "nan" \/ b.k = "nan" THEN NaN
    ELSE IF a.k = "inf" THEN (IF b.k = "inf" THEN NaN ELSE Inf(SignXor(a, b)))
    ELSE IF b.k = "inf" THEN Zero
    ELSE IF IsZero(b) THEN (IF IsZero(a) THEN NaN ELSE Inf(SignXor(a, b)))
    ELSE IF IsZero(a) THEN Zero
    ELSE DivBy(a, b, Max2(0, fmt.p + 2 + NBitLen(b.m) - NBitLen(a.m)), fmt)

\* f32::is_normal / f64::is_normal: neither zero, subnormal, infinite nor NaN
IsNormal(a, fmt) == a.k = "fin" /\ a.m # <<>> /\ TopExp(a) >= fmt.emin

(* ---------------- channels.rs: the Channel trait ------------------------ *)

IntTypes == {"u8", "u16", "u32", "u64", "i8", "i16", "i32", "i64", "usize", "isize"}

FloatTypes == {"f32", "f64"}

ChannelTypes == IntTypes \cup FloatTypes

\* width in bits of an integer type (usize and isize on a 64-bit target)
BitsOf(t) ==
    CASE t \in {"u8", "i8"} -> 8
      [] t \in {"u16", "i16"} -> 16
      [] t \in {"u32", "i32"} -> 32
      [] t \in {"u64", "i64", "usize", "isize"} -> 64

IsSigned(t) == t \in {"i8", "i16", "i32", "i64", "isize"}

\* type FloatChannel: the pairs of the impl_channel! invocation, and the
\* float types themselves
FloatChannel(t) ==
    CASE t \in {"u8", "u16", "u32", "i8", "i16", "i32", "f32"} -> "f32"
      [] t \in {"u64", "i64", "usize", "isize", "f64"} -> "f64"

FormatOf(ft) == IF ft = "f32" THEN F32 ELSE F64

\* <$t>::max_value() and <$t>::min_value()
max_value(t) ==
    Canon(0, NSub(NPow2(IF IsSigned(t) THEN BitsOf(t) - 1 ELSE BitsOf(t)), <<1>>), 0)

min_value(t) == IF IsSigned(t) THEN Canon(1, <<1>>, BitsOf(t) - 1) ELSE Zero

\* `v as $f` for an integer v: the nearest float, ties to even
AsFloat(v, ft) == Round(v.s, v.m, v.e, FormatOf(ft))

\* f with its fraction dropped; a finite value too large for any integer
\* of the given width is left as an infinity
Trunc(f, bits) ==
    IF f.k # "fin" THEN f
    ELSE IF IsZero(f) THEN Zero
    ELSE IF TopExp(f) < 0 THEN Zero
    ELSE IF TopExp(f) > bits THEN Inf(f.s)
    ELSE Canon(f.s, IF f.e >= 0 THEN NShl(f.m, f.e) ELSE NShr(f.m, 0 - f.e), 0)

\* v brought into lo..hi
Saturate(v, lo, hi) ==
    IF v.k = "inf" THEN (IF v.s = 1 THEN lo ELSE hi)
    ELSE IF NumCmp(v, hi) > 0 THEN hi
    ELSE IF NumCmp(v, lo) < 0 THEN lo
    ELSE v

\* `f as $t` as it would be if the cast rounded to the nearest integer,
\* halves away from zero, instead of truncating
AsIntNearest(f, t) ==
    IF f.k = "nan" THEN Zero
    ELSE Saturate(Trunc(FAdd(f, Canon(f.s, <<1>>, -1), F64), BitsOf(t)),
                  min_value(t), max_value(t))

\* `f as $t` for a float f: NaN gives 0, otherwise f is truncated toward
\* zero and saturates at the bounds of $t
AsInt(f, t) ==
    IF f.k = "nan" THEN Zero ELSE Saturate(Trunc(f, BitsOf(t)), min_value(t), max_value(t))

\* Channel::into_float
into_float(t, v) ==
    IF t \in FloatTypes THEN v
    ELSE LET ft == FloatChannel(t)
         IN  FMul(AsFloat(v, ft), AsFloat(max_value(t), ft), FormatOf(ft))

\* Channel::from_float
from_float(t, f) ==
    IF t \in FloatTypes THEN f
    ELSE LET ft == FloatChannel(t)
         IN  AsInt(FDiv(f, AsFloat(max_value(t), ft), FormatOf(ft)), t)

(* ---------------- color.rs: the colour entity --------------------------- *)
(* struct $name<C, Wp> { channels: $channels<C>, white_point: PhantomData } *)
(* as [space |-> $name, ty |-> C, white_point |-> Wp, channels |-> <<..>>]. *)

Spaces == {"Xyz", "Yxy"}

WhitePoints == {"D65", "D50"}

\* the fields `pub $c` of the component struct, in declaration order
Components(space) ==
    CASE space = "Xyz" -> <<"x", "y", "z">>
      [] space = "Yxy" -> <<"x", "y", "luma">>
      [] space = "Lab" -> <<"l", "a", "b">>

\* mem::size_of::<C>()
SizeOf(t) == IF t \in FloatTypes THEN (IF t = "f32" THEN 4 ELSE 8) ELSE BitsOf(t) \div 8

\* the offsets of a component struct whose fields are laid out in the
\* reverse of their declaration order, as a layout without #[repr(C)] may be
FieldOffsetReordered(space, f, t) ==
    LET k == CHOOSE j \in 1..Len(Components(space)) : Components(space)[j] = f
    IN  (Len(Components(space)) - k) * SizeOf(t)

\* #[repr(C)] struct $component<C>: every field is a C, so field k lies
\* right after the k - 1 fields declared before it
FieldOffset(space, f, t) ==
    LET k == CHOOSE j \in 1..Len(Components(space)) : Components(space)[j] = f
    IN  (k - 1) * SizeOf(t)

\* the element of the channel array that starts at a byte offset
ElementAt(off, t) == (off \div SizeOf(t)) + 1

\* $name::raw and $name::with_wp, which only calls raw
raw(space, t, wp, c1, c2, c3) ==
    [space |-> space, ty |-> t, white_point |-> wp, channels |-> <<c1, c2, c3>>]

with_wp(space, t, wp, c1, c2, c3) == raw(space, t, wp, c1, c2, c3)

\* Color::channels
channels(c) == c.channels

\* Components::as_components: the colour's own memory read as $component<C>
as_components(c) ==
    [f \in {Components(c.space)[j] : j \in 1..Len(Components(c.space))} |->
        c.channels[ElementAt(FieldOffset(c.space, f, c.ty), c.ty)]]

\* a store to field f through as_components_mut / DerefMut
set_component(c, f, v) ==
    [c EXCEPT !.channels[ElementAt(FieldOffset(c.space, f, c.ty), c.ty)] = v]

\* a store to element k through Color::channels_mut
set_channel(c, k, v) == [c EXCEPT !.channels[k] = v]

\* into_float as it would be if the mapped channels were collected in the
\* reverse of their order
color_into_float_reversed(c) ==
    [space |-> c.space,
     ty |-> FloatChannel(c.ty),
     white_point |-> c.white_point,
     channels |-> [j \in 1..Len(c.channels) |->
                      into_float(c.ty, c.channels[Len(c.channels) + 1 - j])]]

\* $name::into_float
color_into_float(c) ==
    [space |-> c.space,
     ty |-> FloatChannel(c.ty),
     white_point |-> c.white_point,
     channels |-> [j \in 1..Len(c.channels) |-> into_float(c.ty, c.channels[j])]]

\* from_float as it would be if it built its result with $name::new, which
\* is defined for the white point D65 only
color_from_float_new(t, fc) ==
    [space |-> fc.space,
     ty |-> t,
     white_point |-> "D65",
     channels |-> [j \in 1..Len(fc.channels) |-> from_float(t, fc.channels[j])]]

\* $name::<C, Wp>::from_float
color_from_float(t, fc) ==
    [space |-> fc.space,
     ty |-> t,
     white_point |-> fc.white_point,
     channels |-> [j \in 1..Len(fc.channels) |-> from_float(t, fc.channels[j])]]

(* ---------------- spaces/xyz.rs, spaces/yxy.rs -------------------------- *)

One == Canon(0, <<1>>, 0)

\* the body of Xyz::from(Yxy) after `let yxy = yxy.into_float()`: v is the
\* component view of that float colour and xyz the local
\* Xyz::raw(zero, yxy.luma, zero), returned as it is before from_float
XyzAssign(v, xyz, fmt) ==
    IF IsNormal(v.y, fmt)
    THEN set_component(
             set_component(xyz, "x", FDiv(FMul(v.luma, v.x, fmt), v.y, fmt)),
             "z",
             FDiv(FMul(v.luma, FSub(FSub(One, v.x, fmt), v.y, fmt), fmt), v.y, fmt))
    ELSE xyz

XyzOfFloat(fy) ==
    XyzAssign(as_components(fy),
              raw("Xyz", fy.ty, fy.white_point, Zero, as_components(fy).luma, Zero),
              FormatOf(fy.ty))

\* the local `xyz` of Xyz::from(Yxy) before it is demoted by from_float
XyzFromYxyFloat(yxy) == XyzOfFloat(color_into_float(yxy))

\* impl From<Yxy<C, Wp>> for Xyz<C, Wp>
XyzFromYxy(yxy) == color_from_float(yxy.ty, XyzFromYxyFloat(yxy))

\* .map(|c| c.into_float()).fold(acc, |a, b| a + b) over the channels cs
RECURSIVE FoldSum(_, _, _, _)
FoldSum(acc, cs, t, fmt) ==
    IF cs = <<>> THEN acc
    ELSE FoldSum(FAdd(acc, into_float(t, Head(cs)), fmt), Tail(cs), t, fmt)

\* the local `sum` of Yxy::from(Xyz): ((0 + X) + Y) + Z over the promoted channels
ChannelSum(xyz) == FoldSum(Zero, channels(xyz), xyz.ty, FormatOf(FloatChannel(xyz.ty)))

\* the chromaticity as it would be if the ratio were demoted by scaling
\* it up by T::MAX: (c.into_float() / sum * T::MAX) cast to T
ChromaticityScaled(t, c, sum, fmt) ==
    IF t \in FloatTypes THEN FDiv(c, sum, fmt)
    ELSE AsInt(FMul(FDiv(into_float(t, c), sum, fmt), AsFloat(max_value(t), FloatChannel(t)), fmt), t)

\* Channel::from_float(c.into_float() / sum)
Chromaticity(t, c, sum, fmt) == from_float(t, FDiv(into_float(t, c), sum, fmt))

\* Yxy::from(Xyz) as it would be with the division guarded by `sum != 0`
\* in place of sum.is_normal()
YxyAssignIfNonZero(t, v, yxy, sum, fmt) ==
    IF ~(sum.k = "fin" /\ sum.m = <<>>)
    THEN set_component(
             set_component(yxy, "x", Chromaticity(t, v.x, sum, fmt)),
             "y",
             Chromaticity(t, v.y, sum, fmt))
    ELSE yxy

\* the body of Yxy::from(Xyz) after `sum`: v is the component view of xyz
\* and yxy the local Yxy::with_wp(zero, zero, xyz.y)
YxyAssign(t, v, yxy, sum, fmt) ==
    IF IsNormal(sum, fmt)
    THEN set_component(
             set_component(yxy, "x", Chromaticity(t, v.x, sum, fmt)),
             "y",
             Chromaticity(t, v.y, sum, fmt))
    ELSE yxy

\* Yxy::from(Xyz) as it would be if luma went through the float domain like
\* the Y of Xyz::from(Yxy): Channel::from_float(xyz.y.into_float())
YxyFromXyzViaFloat(xyz) ==
    YxyAssign(xyz.ty, as_components(xyz),
              with_wp("Yxy", xyz.ty, xyz.white_point, Zero, Zero,
                      from_float(xyz.ty, into_float(xyz.ty, as_components(xyz).y))),
              ChannelSum(xyz), FormatOf(FloatChannel(xyz.ty)))

\* impl From<Xyz<C, Wp>> for Yxy<C, Wp>
YxyFromXyz(xyz) ==
    YxyAssign(xyz.ty, as_components(xyz),
              with_wp("Yxy", xyz.ty, xyz.white_point, Zero, Zero, as_components(xyz).y),
              ChannelSum(xyz), FormatOf(FloatChannel(xyz.ty)))

(* ---------------- spaces/lab.rs ---------------------------------------- *)

\* unimplemented!(): the call panics with "not implemented" and returns
\* no value; what the caller is left with is this outcome, not a colour
unimplemented == [panic |-> "not implemented"]

\* a value is a colour (and not the outcome of a panic)
IsColor(c) == "space" \in DOMAIN c

\* Lab::from(xyz) as it would be if it returned a Lab built from the
\* channels of its argument
LabFromXyzOfChannels(xyz) ==
    with_wp("Lab", xyz.ty, xyz.white_point,
            channels(xyz)[1], channels(xyz)[2], channels(xyz)[3])

\* impl From<Xyz<C, Wp>> for Lab<C, Wp>
LabFromXyz(xyz) == unimplemented

\* impl From<Yxy<C, Wp>> for Lab<C, Wp>
LabFromYxy(yxy) == unimplemented

\* impl Default for Lab<C, Wp>
LabDefault(t, wp) == unimplemented

\* From<T> for T, which `.into()` resolves to when the spaces agree
Identity(c) == c

\* FromColor::from_xyz for Self = $name: xyz.into()
from_xyz(self, xyz) ==
    CASE self = "Xyz" -> Identity(xyz)
      [] self = "Yxy" -> YxyFromXyz(xyz)
      [] self = "Lab" -> LabFromXyz(xyz)

\* FromColor::from_yxy for Self = $name: yxy.into()
from_yxy(self, yxy) ==
    CASE self = "Yxy" -> Identity(yxy)
      [] self = "Xyz" -> XyzFromYxy(yxy)
      [] self = "Lab" -> LabFromYxy(yxy)

(* ---------------- inputs ------------------------------------------------ *)

\* how many operations are applied to one colour
MaxOps == 2

Quarter == Canon(0, <<1>>, -2)

Half == Canon(0, <<1>>, -1)

\* the least positive subnormal of a float type
MinSubnormal(ft) == Canon(0, <<1>>, FormatOf(ft).emin - FormatOf(ft).p + 1)

\* v - 1 for a positive integer v
Pred(v) == Canon(0, NSub(NShl(v.m, v.e), <<1>>), 0)

\* channel values a colour is built from. Integers: zero, a small value and
\* one whose product with max_value needs more bits than the float type
\* has. Floats: zero, two normal values, a subnormal and an infinity.
ColorSamples(t) ==
    CASE t \in {"u8", "i8"} -> {Zero, Num(32), Num(64)}
      [] t = "u16" -> {Zero, Num(32), Num(259)}
      [] t = "i16" -> {Zero, Num(32), Num(515)}
      [] t \in {"u32", "i32", "u64", "i64", "usize", "isize"} ->
             {Zero, Num(32), Pred(max_value(t))}
      [] t \in FloatTypes -> {Zero, Quarter, Half, MinSubnormal(t), Inf(0)}

\* the two-valued subset used where every operation of the colour is on
FewSamples(t) ==
    CASE t \in {"u8", "i8"} -> {Zero, Num(64)}
      [] t = "u16" -> {Zero, Num(259)}
      [] t = "i16" -> {Zero, Num(515)}
      [] t \in {"u32", "i32", "u64", "i64", "usize", "isize"} -> {Zero, Pred(max_value(t))}
      [] t \in FloatTypes -> {Zero, Quarter}

Samples(t, few) == IF few THEN FewSamples(t) ELSE ColorSamples(t)

\* values handed to Channel::into_float
ChannelSamples(t) ==
    IF t \in FloatTypes THEN ColorSamples(t) \cup {NaN}
    ELSE {v \in {Zero, Num(1), Num(32), Num(64), Num(127), Num(255), Num(259), Num(515),
                 Pred(max_value(t)), max_value(t)} : NumCmp(v, max_value(t)) <= 0}

\* the greatest float of FloatChannel below `<$t>::max_value() as $f`
BelowMax(t) ==
    FMul(AsFloat(max_value(t), FloatChannel(t)),
         FSub(One, Canon(0, <<1>>, 0 - FormatOf(FloatChannel(t)).p), FormatOf(FloatChannel(t))),
         FormatOf(FloatChannel(t)))

\* floats handed to Channel::from_float directly
FloatSamples(t) ==
    {Zero, Half, One, Num(100), Num(-3), Inf(0), NaN}
        \cup (IF t \in IntTypes
              THEN {AsFloat(max_value(t), FloatChannel(t)), BelowMax(t)}
              ELSE {})

\* Xyz::default(): with_wp(zero, zero, zero)
DefaultColor == with_wp("Xyz", "f32", "D65", Zero, Zero, Zero)

Op(n) == [name |-> n, field |-> "", value |-> Zero]

NoChannel == [ty |-> "f32", pc |-> "idle", v |-> Zero, f |-> Zero, r |-> Zero]

(* ---------------- state ------------------------------------------------- *)
(* col:  the colour value at hand                                          *)
(* hist: the colours the operations so far were applied to, oldest first   *)
(* op:   the last operation, by the name of the function that ran          *)
(* chan: one channel value on its way through Channel::into_float and      *)
(*       Channel::from_float: its type ty, the value v, its float f, the   *)
(*       value r decoded from f, and how far it got (pc)                   *)

VARIABLES col, hist, op, chan

vars == <<col, hist, op, chan>>

\* a colour of one of the spaces built by with_wp from sampled channels:
\* from FewSamples if few, else from ColorSamples
NewColor(spaces, few) ==
    /\ \E s \in spaces, t \in ChannelTypes, wp \in WhitePoints :
           \E c1 \in Samples(t, few), c2 \in Samples(t, few), c3 \in Samples(t, few) :
               col = with_wp(s, t, wp, c1, c2, c3)
    /\ hist = <<>>
    /\ op = Op("with_wp")
    /\ chan = NoChannel

Apply(name, result) ==
    /\ Len(hist) < MaxOps
    /\ col' = result
    /\ hist' = Append(hist, col)
    /\ op' = Op(name)
    /\ UNCHANGED chan

\* Xyz::from(yxy)
ConvertToXyz == col.space = "Yxy" /\ Apply("Xyz::from", XyzFromYxy(col))

\* Yxy::from(xyz)
ConvertToYxy == col.space = "Xyz" /\ Apply("Yxy::from", YxyFromXyz(col))

\* Self::from_xyz(xyz), op naming the From impl that into() ran
FromXyz ==
    /\ col.space = "Xyz"
    /\ \E self \in Spaces :
           Apply(IF self = "Xyz" THEN "identity" ELSE "Yxy::from", from_xyz(self, col))

\* Self::from_yxy(yxy)
FromYxy ==
    /\ col.space = "Yxy"
    /\ \E self \in Spaces :
           Apply(IF self = "Yxy" THEN "identity" ELSE "Xyz::from", from_yxy(self, col))

\* col.into_float()
IntoFloat == Apply("into_float", color_into_float(col))

\* $name::<C, Wp>::from_float(col) for a C whose FloatChannel is col's type
FromFloat ==
    /\ col.ty \in FloatTypes
    /\ \E t \in ChannelTypes :
           /\ FloatChannel(t) = col.ty
           /\ Apply("from_float", color_from_float(t, col))

(* the whole colour interface, on colours built from FewSamples *)

Init == NewColor(Spaces, TRUE)

Next ==
    \/ ConvertToXyz
    \/ ConvertToYxy
    \/ FromXyz
    \/ FromYxy
    \/ IntoFloat
    \/ FromFloat

Spec == Init /\ [][Next]_vars

(* the conversions between the spaces, on colours built from ColorSamples *)

InitConv == NewColor(Spaces, FALSE)

NextConv ==
    \/ ConvertToXyz
    \/ ConvertToYxy
    \/ FromXyz
    \/ FromYxy

SpecConv == InitConv /\ [][NextConv]_vars

(* stores through the component view and through channels_mut *)

ViewSpaces == {"Xyz", "Yxy", "Lab"}

InitView ==
    /\ \E s \in ViewSpaces, t \in ChannelTypes, wp \in WhitePoints :
           col = with_wp(s, t, wp, Zero, Zero, Zero)
    /\ hist = <<>>
    /\ op = Op("with_wp")
    /\ chan = NoChannel

\* col.f = v (DerefMut) or col.as_components_mut().f = v
SetComponent ==
    \E j \in 1..Len(Components(col.space)), v \in FewSamples(col.ty) :
        /\ col' = set_component(col, Components(col.space)[j], v)
        /\ hist' = <<col>>
        /\ op' = [name |-> "set_component", field |-> Components(col.space)[j], value |-> v]
        /\ UNCHANGED chan

\* col.channels_mut()[k - 1] = v
SetChannel ==
    \E k \in 1..Len(col.channels), v \in FewSamples(col.ty) :
        /\ col' = set_channel(col, k, v)
        /\ hist' = <<col>>
        /\ op' = [name |-> "set_channel", field |-> Components(col.space)[k], value |-> v]
        /\ UNCHANGED chan

NextView == SetComponent \/ SetChannel

SpecView == InitView /\ [][NextView]_vars

(* one channel value through Channel::into_float and Channel::from_float *)

InitChannel ==
    /\ col = DefaultColor
    /\ hist = <<>>
    /\ op = Op("with_wp")
    /\ \E t \in ChannelTypes :
           \/ \E v \in ChannelSamples(t) :
                  chan = [ty |-> t, pc |-> "value", v |-> v, f |-> Zero, r |-> Zero]
           \/ \E f \in FloatSamples(t) :
                  chan = [ty |-> t, pc |-> "float", v |-> Zero, f |-> f, r |-> Zero]

\* f = v.into_float()
ChannelIntoFloat ==
    /\ chan.pc = "value"
    /\ chan' = [chan EXCEPT !.f = into_float(chan.ty, chan.v), !.pc = "promoted"]
    /\ UNCHANGED <<col, hist, op>>

\* r = Channel::from_float(f), of a float that into_float made or of a given one
ChannelFromFloat ==
    /\ chan.pc \in {"promoted", "float"}
    /\ chan' = [chan EXCEPT !.r = from_float(chan.ty, chan.f),
                            !.pc = IF chan.pc = "promoted" THEN "round_trip" ELSE "demoted"]
    /\ UNCHANGED <<col, hist, op>>

NextChannel == ChannelIntoFloat \/ ChannelFromFloat

SpecChannel == InitChannel /\ [][NextChannel]_vars

(* the entry points of Lab, on colours built from FewSamples *)

\* a call that ran on the colour at hand and left `result`; after a panic
\* nothing more runs
Call(name, result) ==
    /\ IsColor(col)
    /\ col' = result
    /\ hist' = Append(hist, col)
    /\ op' = Op(name)
    /\ UNCHANGED chan

\* Lab::from(xyz)
ConvertXyzToLab == IsColor(col) /\ col.space = "Xyz" /\ Call("Lab::from(xyz)", LabFromXyz(col))

\* Lab::from(yxy)
ConvertYxyToLab == IsColor(col) /\ col.space = "Yxy" /\ Call("Lab::from(yxy)", LabFromYxy(col))

\* Lab::from_xyz(xyz)
LabOfXyz == IsColor(col) /\ col.space = "Xyz" /\ Call("Lab::from_xyz", from_xyz("Lab", col))

\* Lab::from_yxy(yxy)
LabOfYxy == IsColor(col) /\ col.space = "Yxy" /\ Call("Lab::from_yxy", from_yxy("Lab", col))

\* Lab::<C, Wp>::default() for the C and Wp of the colour at hand
DefaultLab == IsColor(col) /\ Call("Lab::default", LabDefault(col.ty, col.white_point))

InitLab == NewColor(Spaces, TRUE)

NextLab ==
    \/ ConvertXyzToLab
    \/ ConvertYxyToLab
    \/ LabOfXyz
    \/ LabOfYxy
    \/ DefaultLab

SpecLab == InitLab /\ [][NextLab]_vars

(* ---------------- properties ------------------------------------------- *)
(* Quantities are compared exactly: Exact is a format wide enough that no  *)
(* sum or product of channel values formed below is rounded.               *)

Exact == [p |-> 600, emin |-> -6000, emax |-> 6000]

Abs(a) == IF a.k = "nan" THEN a ELSE [a EXCEPT !.s = 0]

\* a * 2^k for a finite a
Scale(a, k) == IF IsZero(a) THEN a ELSE [a EXCEPT !.e = @ + k]

XMul(a, b) == FMul(a, b, Exact)

XAdd(a, b) == FAdd(a, b, Exact)

XSub(a, b) == FSub(a, b, Exact)

\* a <= b for finite a and b
Leq(a, b) == NumCmp(a, b) <= 0

\* the colour the last operation was applied to
Input == hist[Len(hist)]

\* the float format the channels of colour c are promoted to
FloatFormat(c) == FormatOf(FloatChannel(c.ty))

\* the channel of colour c under the field name f
Field(c, f) == as_components(c)[f]

AllFinite(c) == \A j \in 1..Len(c.channels) : c.channels[j].k = "fin"

\* the value that stands for 1.0 in channel type t
Unit(t) == IF t \in FloatTypes THEN One ELSE max_value(t)

\* two channel values of type t agree within tolerance: integers to two
\* units, floats to 2^-(p - 4) of the larger magnitude or of 1.0
Close(a, b, t) ==
    \/ a = b
    \/ /\ a.k = "fin"
       /\ b.k = "fin"
       /\ IF t \in IntTypes
          THEN Leq(Abs(XSub(a, b)), Num(2))
          ELSE \/ Leq(Abs(XSub(a, b)), Scale(Abs(a), 4 - FormatOf(t).p))
               \/ Leq(Abs(XSub(a, b)), Scale(Abs(b), 4 - FormatOf(t).p))
               \/ Leq(Abs(XSub(a, b)), Scale(One, 4 - FormatOf(t).p))

(* ---------------- Channel::into_float and Channel::from_float ----------- *)

\* C1: for every integer channel type T and every v with 0 <= v <= T::MAX,
\* Channel::from_float(Channel::into_float(v)) equals v exactly.
C1_RoundTripExact ==
    (chan.pc = "round_trip" /\ chan.ty \in IntTypes) => chan.r = chan.v

\* C2: for every integer channel type T, into_float maps [0, T::MAX] onto
\* [0, 1]: into_float(0) = 0, into_float(T::MAX) = 1 and
\* 0 <= into_float(v) <= 1 for every v in [0, T::MAX].
C2_UnitInterval ==
    (chan.pc = "promoted" /\ chan.ty \in IntTypes) =>
        /\ chan.f.k = "fin"
        /\ Leq(Zero, chan.f)
        /\ Leq(chan.f, One)
        /\ (chan.v = Zero => chan.f = Zero)
        /\ (chan.v = max_value(chan.ty) => chan.f = One)

\* `<$t>::max_value() as $f` for the type of the channel in flight
MaxAsFloat == AsFloat(max_value(chan.ty), FloatChannel(chan.ty))

\* the quotient Channel::from_float casts: f / (T::MAX as F), computed in F
Quotient == FDiv(chan.f, MaxAsFloat, FormatOf(FloatChannel(chan.ty)))

\* into_float has run on an integer channel: f is the product of
\* v as F and T::MAX as F, rounded once to F
IsProduct ==
    (chan.pc = "promoted" /\ chan.ty \in IntTypes) =>
        chan.f = RoundNum(XMul(AsFloat(chan.v, FloatChannel(chan.ty)), MaxAsFloat),
                          FormatOf(FloatChannel(chan.ty)))

\* from_float has run on a float f >= 0 of an integer channel type
Decoded(f) ==
    /\ chan.pc \in {"demoted", "round_trip"}
    /\ chan.ty \in IntTypes
    /\ f.k = "fin"
    /\ Leq(Zero, f)

\* r = floor(q) for a finite q >= 0
IsFloor(r, q) == q.k = "fin" /\ Leq(r, q) /\ NumCmp(q, XAdd(r, One)) < 0

\* every f with 0 <= f < T::MAX decodes to 0
BelowMaxDecodesToZero ==
    (Decoded(chan.f) /\ NumCmp(chan.f, max_value(chan.ty)) < 0) => chan.r = Zero

\* C12 as stated: for every integer channel type T paired with float type
\* F, into_float(v) = (v as F) * (T::MAX as F) and from_float(f) =
\* (f / (T::MAX as F)) cast to T, where the cast truncates toward zero: for
\* f >= 0 the result is floor(f / T::MAX), so every f with 0 <= f < T::MAX
\* decodes to 0.
C12_TruncatingCast ==
    /\ IsProduct
    /\ Decoded(chan.f) => IsFloor(chan.r, Quotient)
    /\ BelowMaxDecodesToZero

\* C12, amended: as C12, but for f >= 0 the result is floor(f / (T::MAX as
\* F)) only while that is at most T::MAX, and T::MAX when the quotient is
\* greater (the cast saturates).
C12_SaturatingTruncation ==
    /\ IsProduct
    /\ Decoded(chan.f) =>
           IF Quotient.k = "fin" /\ Leq(Quotient, max_value(chan.ty))
           THEN IsFloor(chan.r, Quotient)
           ELSE chan.r = max_value(chan.ty)
    /\ BelowMaxDecodesToZero

\* from_float has decoded a float above half of T::MAX and below T::MAX,
\* which a rounding cast would decode to 1, to 0
C12_Witness ==
    /\ Decoded(chan.f)
    /\ chan.pc = "demoted"
    /\ NumCmp(chan.f, MaxAsFloat) < 0
    /\ NumCmp(XAdd(chan.f, chan.f), MaxAsFloat) > 0
    /\ chan.r = Zero

(* ---------------- Xyz::from(Yxy) and Yxy::from(Xyz) --------------------- *)

\* Xyz::from has just run on a Yxy whose promoted y is (is not) normal
XyzFromRan(normal) ==
    /\ op.name = "Xyz::from"
    /\ IsNormal(into_float(Input.ty, Field(Input, "y")), FloatFormat(Input)) = normal

\* Yxy::from has just run on an Xyz whose promoted channel sum is (is not) normal
YxyFromRan(normal) ==
    /\ op.name = "Yxy::from"
    /\ IsNormal(ChannelSum(Input), FloatFormat(Input)) = normal

\* C3: Xyz::from(yxy) on a Yxy whose y is not normal (y = 0 in particular)
\* returns X = 0, Z = 0 and Y = luma, whatever x and luma are.
C3_DegenerateY ==
    XyzFromRan(FALSE) => channels(col) = <<Zero, Field(Input, "luma"), Zero>>

\* C4: Yxy::from(xyz) on an Xyz whose promoted channel sum is not normal
\* returns x = 0 and y = 0, and (0, 0, 0) gives (0, 0, 0).
C4_DegenerateSum ==
    YxyFromRan(FALSE) =>
        /\ Field(col, "x") = Zero
        /\ Field(col, "y") = Zero
        /\ (channels(Input) = <<Zero, Zero, Zero>> => channels(col) = <<Zero, Zero, Zero>>)

\* Yxy::from has run on a sum that is not normal although a channel is not 0
C4_Witness == YxyFromRan(FALSE) /\ channels(Input) # <<Zero, Zero, Zero>>

\* |a - b| <= tol, all three finite
Within(a, b, tol) == Leq(Abs(XSub(a, b)), tol)

\* luma * x / y for the component view v of a Yxy, times y
XTimesY(v) == XMul(v.luma, v.x)

\* luma * (1 - x - y) / y for the component view v of a Yxy, times y, where
\* Unit stands for 1
ZTimesY(v, t) == XMul(v.luma, XSub(XSub(Unit(t), v.x), v.y))

\* the X and Z of the view v of a Yxy lie in 0..1, so that an integer
\* channel type can hold them
InGamut(v, t) ==
    /\ Leq(XAdd(v.x, v.y), Unit(t))
    /\ Leq(XTimesY(v), XMul(Unit(t), v.y))
    /\ Leq(ZTimesY(v, t), XMul(Unit(t), v.y))

\* the colours so far, oldest first, ending with the one at hand
Trail == Append(hist, col)

\* position i of the trail starts a Yxy -> Xyz -> Yxy round trip (only
\* Xyz::from turns a Yxy into an Xyz and only Yxy::from an Xyz into a Yxy)
\* of a finite colour with a normal y and a luma that is not 0, so that
\* the chromaticity is not lost with the luminance, and with X and Z in
\* range where the channels are integers
RoundTripAt(i) ==
    /\ Trail[i].space = "Yxy"
    /\ Trail[i + 1].space = "Xyz"
    /\ Trail[i + 2].space = "Yxy"
    /\ AllFinite(Trail[i])
    /\ (Trail[i].ty \in IntTypes => InGamut(as_components(Trail[i]), Trail[i].ty))
    /\ IsNormal(into_float(Trail[i].ty, Field(Trail[i], "y")), FloatFormat(Trail[i]))
    /\ IsNormal(into_float(Trail[i].ty, Field(Trail[i], "luma")), FloatFormat(Trail[i]))

\* C5: for every Yxy whose y is normal, Yxy::from(Xyz::from(c)) reproduces
\* the original (x, y, luma) within floating-point tolerance.
C5_RoundTrip ==
    \A i \in 1..(Len(Trail) - 2) :
        RoundTripAt(i) =>
            \A f \in {"x", "y", "luma"} :
                Close(Field(Trail[i + 2], f), Field(Trail[i], f), Trail[i].ty)

\* X = luma * x / y and Z = luma * (1 - x - y) / y for integer channels
\* in range: compared after multiplying by y, to one unit of the result
\* and 2^-20 of the numerator
XyzOfInts(c, v, t) ==
    InGamut(v, t) =>
        /\ Within(XMul(c.x, v.y), XTimesY(v), XAdd(v.y, Scale(XTimesY(v), -20)))
        /\ Within(XMul(c.z, v.y), ZTimesY(v, t), XAdd(v.y, Scale(ZTimesY(v, t), -20)))

\* the same for float channels, each operation rounded as f32 / f64 rounds
XyzOfFloats(c, v, fmt) ==
    /\ c.x = FDiv(FMul(v.luma, v.x, fmt), v.y, fmt)
    /\ c.z = FDiv(FMul(v.luma, FSub(FSub(One, v.x, fmt), v.y, fmt), fmt), v.y, fmt)

\* C6: for every Yxy (x, y, luma) whose y is normal, Xyz::from returns
\* X = luma * x / y, Y = luma and Z = luma * (1 - x - y) / y, computed in
\* the canonical float domain and demoted to the channel type.
C6_XyzFormula ==
    (XyzFromRan(TRUE) /\ AllFinite(Input)) =>
        /\ Field(col, "y") = Field(Input, "luma")
        /\ IF Input.ty \in IntTypes
           THEN XyzOfInts(as_components(col), as_components(Input), Input.ty)
           ELSE XyzOfFloats(as_components(col), as_components(Input), FormatOf(Input.ty))

\* the exact sum of the channels of c
ExactChannelSum(c) == XAdd(XAdd(c.channels[1], c.channels[2]), c.channels[3])

\* x = X / sum and y = Y / sum for integer channels, where Unit stands for
\* 1: compared after multiplying by sum, to one unit of the result
YxyOfInts(c, v, sum, t) ==
    /\ Within(XMul(c.x, sum), XMul(v.x, Unit(t)), sum)
    /\ Within(XMul(c.y, sum), XMul(v.y, Unit(t)), sum)

\* the same for float channels, the sum and the quotients rounded as f32 /
\* f64 round
YxyOfFloats(c, v, sum, fmt) ==
    /\ c.x = FDiv(v.x, sum, fmt)
    /\ c.y = FDiv(v.y, sum, fmt)

\* C7: for every Xyz whose channel sum is normal, Yxy::from returns
\* x = X / sum and y = Y / sum, the sum computed in the float domain.
C7_YxyFormula ==
    (YxyFromRan(TRUE) /\ AllFinite(Input)) =>
        IF Input.ty \in IntTypes
        THEN YxyOfInts(as_components(col), as_components(Input), ExactChannelSum(Input),
                       Input.ty)
        ELSE YxyOfFloats(as_components(col), as_components(Input), ChannelSum(Input),
                         FormatOf(Input.ty))

\* C8: Yxy::from(xyz) carries luminance through unconditionally: whether
\* or not the channel sum is normal, luma of the result is the input's Y.
C8_LumaCarried ==
    op.name = "Yxy::from" => Field(col, "luma") = Field(Input, "y")

\* Yxy::from has run on a normal sum, and the luma it kept is one that
\* Channel::from_float(Channel::into_float(luma)) would change
C8_Witness ==
    /\ YxyFromRan(TRUE)
    /\ Field(col, "luma") # Zero
    /\ from_float(Input.ty, into_float(Input.ty, Field(Input, "y"))) # Field(Input, "y")

(* ---------------- the component view and the white point ---------------- *)

\* element k of channels() is the k-th field of the component view
ViewAgrees(c) ==
    \A k \in 1..Len(Components(c.space)) :
        as_components(c)[Components(c.space)[k]] = channels(c)[k]

\* the last store put op.value under the field op.field, in the view and
\* in the container, and left the other elements as they were
StoreLanded ==
    \A k \in 1..Len(Components(col.space)) :
        IF Components(col.space)[k] = op.field
        THEN channels(col)[k] = op.value /\ Field(col, op.field) = op.value
        ELSE channels(col)[k] = channels(Input)[k]

\* C9: the component view and the channel container always agree: after
\* any writes through as_components_mut / DerefMut or channels_mut the
\* k-th field of the view is element k of channels(), and a write to one
\* field changes no other element.
C9_ViewAgrees ==
    /\ ViewAgrees(col)
    /\ (op.name \in {"set_component", "set_channel"} => StoreLanded)

\* a store through the view to a field other than the first, of a value
\* other than the one the first element holds
C9_Witness ==
    /\ op.name = "set_component"
    /\ op.field # Components(col.space)[1]
    /\ op.value # channels(col)[1]
    /\ op.value # Zero

\* C10: no operation changes a colour's white-point tag: every conversion,
\* from_xyz / from_yxy, into_float and from_float returns a colour tagged
\* with the white point of its input.
C10_WhitePointKept ==
    \A i \in 1..Len(hist) : hist[i].white_point = col.white_point

\* a colour tagged D50 has gone through MaxOps operations, the last of
\* them the whole-colour from_float
C10_Witness ==
    /\ Len(hist) = MaxOps
    /\ op.name = "from_float"
    /\ col.white_point = "D50"
    /\ hist[1].space # col.space

\* Yxy::from has just run on an Xyz of an unsigned integer channel type
YxyFromUnsignedRan ==
    /\ op.name = "Yxy::from"
    /\ Input.ty \in IntTypes
    /\ ~IsSigned(Input.ty)

\* the ratio into_float(c) / sum that Yxy::from hands to from_float
Ratio(c) == FDiv(into_float(Input.ty, c), ChannelSum(Input), FloatFormat(Input))

InUnitInterval(a) == a.k = "fin" /\ Leq(Zero, a) /\ Leq(a, One)

C13_Elementwise ==
    /\ op.name = "into_float" =>
           /\ col.space = Input.space
           /\ col.ty = FloatChannel(Input.ty)
           /\ Len(channels(col)) = 3
           /\ \A k \in 1..3 : channels(col)[k] = into_float(Input.ty, channels(Input)[k])
    /\ op.name = "from_float" =>
           /\ col.space = Input.space
           /\ FloatChannel(col.ty) = Input.ty
           /\ Len(channels(col)) = 3
           /\ \A k \in 1..3 : channels(col)[k] = from_float(col.ty, channels(Input)[k])

\* an integer colour whose first and last channels differ has been promoted
\* by into_float and demoted again by from_float, and the first and last
\* channels of the result differ
C13_Witness ==
    /\ Len(hist) = 2
    /\ op.name = "from_float"
    /\ hist[1].ty \in IntTypes
    /\ col.ty \in IntTypes
    /\ channels(hist[1])[1] # channels(hist[1])[3]
    /\ channels(col)[1] # channels(col)[3]

(* ---------------- spaces/lab.rs ---------------------------------------- *)

LabEntryPoints ==
    {"Lab::from(xyz)", "Lab::from(yxy)", "Lab::from_xyz", "Lab::from_yxy", "Lab::default"}

\* C11: the Lab entry points fail unconditionally: Lab::from(xyz),
\* Lab::from(yxy), Lab::from_xyz, Lab::from_yxy and Lab::default() end in
\* the "not implemented" failure for every input and never return a Lab
\* value.
C11_LabUnimplemented ==
    /\ op.name \in LabEntryPoints => col = unimplemented
    /\ IsColor(col) => col.space # "Lab"

\* Lab::from_xyz has run on an Xyz colour with a non-zero channel and
\* ended in the failure
C11_Witness ==
    /\ op.name = "Lab::from_xyz"
    /\ hist[1].space = "Xyz"
    /\ hist[1].channels[2] # Zero
    /\ col = unimplemented
====
